---- MODULE Spec2Model ----
(***************************************************************************)
(* Media Production Coordinator of the Nexus producer service              *)
(* (services/producer-nexus): the queue consumer (MediaProducer.start,     *)
(* handleMessage), one production pass (processMediaJob), the provider     *)
(* chains of the three asset categories (AudioService, ImageService,       *)
(* VideoService), format expansion, the job record and the object store.   *)
(*                                                                         *)
(* One action is one run of the event loop between two awaits: everything  *)
(* the code does synchronously after a promise resolves belongs to the     *)
(* action that resolves it.                                                *)
(***************************************************************************)
EXTENDS Integers, Sequences, FiniteSets, TLC

\* ---------------------------------------------------------------- bounds
\* Number of messages published to the media queue during a run.
MaxMsgs == 2

\* Longest list of voice ids passed to generateMultipleVoices.
MaxVoices == 3

\* ------------------------------------------------------ program constants
\* index.js:123  script_text.length > 100
VideoScriptThreshold == 100
\* index.js:51  channel.prefetch(1)
PrefetchCount == 1
\* videoService.js:78, videoService.js:150, imageService.js:104
PictoryMaxAttempts == 30
RunwayMaxAttempts == 20
MidjourneyMaxAttempts == 20

\* ----------------------------------------------------------------- state
VARIABLES
  keys,      \* provider -> is its API key configured
  db,        \* content_jobs: job id -> row or NoRow
  storage,   \* the set of keys present in the bucket
  channel,   \* the AMQP channel: open, consuming, prefetch
  queue,     \* messages ready on the broker, oldest first
  nextTag,   \* the delivery tag of the next message published
  toPublish, \* how many messages other services publish during the run
  unacked,   \* tags delivered to the consumer and not yet settled
  acked,     \* tag -> number of channel.ack calls the channel has sent
  nacked,    \* tag -> number of channel.nack calls the channel has sent
  pass,      \* tag -> the processMediaJob invocation for that message
  task,      \* tag -> category -> the promise of that category's chain
  tempFiles, \* the files present in the video service's temporary directory
  shutdown,  \* the progress of the SIGINT handler and the fate of the process
  audioService \* the audio service's voice id and its generateMultipleVoices call

vars ==
  <<keys, db, storage, channel, queue, nextTag, toPublish, unacked, acked, nacked, pass, task,
    tempFiles, shutdown, audioService>>

\* ------------------------------------------------------------ vocabulary
Categories == {"audio", "thumbnail", "video"}

\* index.js:142  the label list indexed by the position of a settled promise
CategoryLabels == <<"audio", "thumbnail", "video">>

RemoteProviders == {"elevenlabs", "dalle", "midjourney", "pictory", "runway"}

Tags == 1..MaxMsgs

JobIds == {"abc"}

\* A nullable TEXT column: SQL NULL, or a string of the given length.
NullText == [null |-> TRUE, len |-> 0]

Str(n) == [null |-> FALSE, len |-> n]

\* JavaScript truthiness of a nullable string: null and "" are falsy.
Truthy(t) == (~t.null) /\ t.len > 0

\* analysis_json as the driver returns it: SQL NULL, an object, or a string
\* holding JSON text (of an object, of the literal null, or malformed).
AnalysisKinds == {"object", "string_null", "string_bad"}

\* index.js:99-101  typeof analysis_json === 'string' ? JSON.parse(..) : analysis_json || {}
\* The result is an object, the value null, or a SyntaxError.
ParseAnalysis(kind) ==
  CASE kind = "string_bad" -> "throws"
    [] kind = "string_null" -> "null"
    [] kind = "object" -> "object"
    [] OTHER -> "object"

\* ------------------------------------------------------- object storage
\* A key that also carries the number of messages published so far.
StorageKeyPerDelivery(jobId, cat, prov, ext) ==
  [job |-> jobId, name |-> <<cat, prov, nextTag>>, ext |-> ext]

\* storageService.js:45-65  the key handed to uploadBuffer.
StorageKey(jobId, cat, prov, ext) ==
  [job |-> jobId, name |-> <<cat, prov>>, ext |-> ext]

NoKey == [job |-> "", name |-> <<>>, ext |-> ""]

\* The URL of the asset on the provider's own host, kept in place of the
\* gateway's URL.
RemoteHostedUrl(key) == [base |-> "remote", bucket |-> "", key |-> key]

\* storageService.js:56  `${publicBaseUrl}/${bucket}/${key}`
PublicUrl(key) == [base |-> "public", bucket |-> "relayforge-assets", key |-> key]

NoUrl == [base |-> "", bucket |-> "", key |-> NoKey]

\* the file extension each provider uploads under
ProviderExt(prov, cat) ==
  CASE prov = "elevenlabs" -> "mp3"
    [] prov = "fallback" /\ cat = "audio" -> "wav"
    [] cat = "thumbnail" -> "png"
    [] OTHER -> "mp4"

\* videoService.js:245-249  the target presentations, in iteration order
FormatNames == <<"landscape", "portrait", "square">>

FormatConfig(name) ==
  CASE name = "landscape" -> [dimensions |-> "1920x1080", ratio |-> "16:9"]
    [] name = "portrait" -> [dimensions |-> "1080x1920", ratio |-> "9:16"]
    [] OTHER -> [dimensions |-> "1080x1080", ratio |-> "1:1"]

\* videoService.js:294  `jobs/${jobId}/video_${formatName}.mp4`
FormatKey(jobId, name) == StorageKey(jobId, "video", name, "mp4")

\* ------------------------------------------------------ temporary files
\* videoService.js:200  path.join(tempDir, `${jobId}_temp.mp4`)
TempVideoPath(jobId) == <<jobId, "temp">>

\* videoService.js:270  path.join(tempDir, `${jobId}_input.mp4`)
TempInputPath(jobId) == <<jobId, "input">>

\* videoService.js:271  path.join(tempDir, `${jobId}_${formatName}.mp4`)
TempOutputPath(jobId, name) == <<jobId, name>>

\* ------------------------------------------------------------ job record
NoRow == [absent |-> TRUE]

NoAssets == [c \in {} |-> NoUrl]

TitleValues == {NullText, Str(0), Str(13)}

ScriptValues ==
  {NullText, Str(0), Str(VideoScriptThreshold), Str(VideoScriptThreshold + 1), Str(150)}

InitialStatuses == {"processing"}

Rows ==
  [absent : {FALSE}, title : TitleValues, script_text : ScriptValues,
   analysis_json : AnalysisKinds, status : InitialStatuses,
   media_assets : {NoAssets}, media_url : {NoUrl}]

\* ---------------------------------------------------------- deployments
\* The credentials read from the environment when the services are built
\* (audioService.js:15, imageService.js:14-15, videoService.js:20-21).
NoKeys == [p \in RemoteProviders |-> FALSE]

WithKeys(S) == [p \in RemoteProviders |-> p \in S]

\* The deployments explored: every combination of the credentials of one
\* category with the other categories unconfigured, and all credentials set.
Deployments ==
  { WithKeys({}), WithKeys({"elevenlabs"}), WithKeys({"dalle"}),
    WithKeys({"midjourney"}), WithKeys({"dalle", "midjourney"}),
    WithKeys({"pictory"}), WithKeys({"runway"}),
    WithKeys({"pictory", "runway"}), WithKeys(RemoteProviders) }

\* ------------------------------------------------------- provider chains
\* An error thrown by a provider attempt: which provider threw, why, and for a
\* poll-loop timeout the value of the attempts counter when it was thrown.
\*   error          a request, status query, download or local step failed
\*   remote_failed  the remote status was the provider's failure status
\*   timeout        the poll loop ended without a URL
\*   nourl          the remote status was completed, without a URL in it
\*   upload_error   storageService.uploadBuffer threw
Thrown(p, out, n) == [p |-> p, out |-> out, attempts |-> n]

NoError == Thrown("none", "none", 0)

\* A category task: the promise returned by generateAudio / generateThumbnail /
\* generateVideo.
\*   st        idle | running | fulfilled | rejected
\*   prov      the provider whose attempt is awaited, stage its awaited call
\*   attempts  the poll loop's counter
\*   inCatch   the chain's catch block is running (error is what it caught)
\*   error     the caught error while inCatch, the reason once rejected
\*   url       the value the promise fulfilled with
IdleTask ==
  [st |-> "idle", prov |-> "none", stage |-> "none", attempts |-> 0,
   inCatch |-> FALSE, error |-> NoError, url |-> NoUrl]

\* An audio chain that requests ElevenLabs whether or not its key is set.
generateAudioRemote(k) == "elevenlabs"

\* audioService.js:26-30  the branch taken inside the try block
generateAudio(k) == IF k["elevenlabs"] THEN "elevenlabs" ELSE "fallback"

\* A thumbnail chain that requests DALL-E whether or not its key is set.
generateThumbnailDalleAlways(k) == "dalle"

\* imageService.js:21-27
generateThumbnail(k) ==
  IF k["dalle"] THEN "dalle"
  ELSE IF k["midjourney"] THEN "midjourney"
  ELSE "fallback"

\* videoService.js:39-45
generateVideo(k) ==
  IF k["pictory"] THEN "pictory"
  ELSE IF k["runway"] THEN "runway"
  ELSE "fallback"

FirstLink(cat, k) ==
  CASE cat = "audio" -> generateAudio(k)
    [] cat = "thumbnail" -> generateThumbnail(k)
    [] OTHER -> generateVideo(k)

\* Providers that complete asynchronously and are polled.
IsPolled(p) == p \in {"pictory", "runway", "midjourney"}

PollMax(p) ==
  CASE p = "pictory" -> PictoryMaxAttempts
    [] p = "runway" -> RunwayMaxAttempts
    [] OTHER -> MidjourneyMaxAttempts

\* videoService.js:80, 152; imageService.js:106  while (attempts < maxAttempts && !url)
LoopContinuesOffByOne(attempts, max) == attempts <= max

LoopContinues(attempts, max) == attempts < max

\* The first await of a provider attempt.
FirstStage(p, cat) ==
  IF p # "fallback" THEN "request"
  ELSE IF cat = "video" THEN "encode"
  ELSE "upload"

\* The code run before a provider's first await dereferences the title:
\* videoService.js:61 title.substring, videoService.js:208 title.replace.
ThrowsAtStart(p, cat, title) ==
  cat = "video" /\ title.null /\ p \in {"pictory", "fallback"}

Rejected(t, e) ==
  [t EXCEPT !.st = "rejected", !.prov = "none", !.stage = "none", !.attempts = 0,
            !.error = e]

\* A catch block that starts the failed provider's attempt again.
CatchRetry(t, cat, title, e) ==
  [t EXCEPT !.stage = FirstStage(t.prov, cat), !.attempts = 0, !.error = e]

\* audioService.js:31-35, imageService.js:28-31, videoService.js:46-49
\* the catch block of the chain: run the local fallback, outside any try.
Catch(t, cat, title, e) ==
  IF ThrowsAtStart("fallback", cat, title)
  THEN Rejected([t EXCEPT !.inCatch = TRUE], Thrown("fallback", "error", 0))
  ELSE [t EXCEPT !.prov = "fallback", !.stage = FirstStage("fallback", cat),
                 !.attempts = 0, !.inCatch = TRUE, !.error = e]

\* A provider attempt throws: inside the try block the catch block takes over,
\* inside the catch block the task's promise rejects.
Throw(t, cat, title, out, n) ==
  LET e == Thrown(t.prov, out, n)
  IN IF t.inCatch THEN Rejected(t, e) ELSE Catch(t, cat, title, e)

\* Calling the chain: the synchronous part up to its first await.
Launch(cat, k, title) ==
  LET p == FirstLink(cat, k)
      t == [IdleTask EXCEPT !.st = "running", !.prov = p, !.stage = FirstStage(p, cat)]
  IN IF ThrowsAtStart(p, cat, title) THEN Throw(t, cat, title, "error", 0) ELSE t

\* A resumption that neither uploads nor touches the temporary directory.
Quiet(t) == [t |-> t, put |-> NoKey, made |-> {}, gone |-> {}]

\* A remote provider whose status is queried as soon as the job is submitted.
AfterRequestPollAtOnce(p) ==
  IF IsPolled(p) THEN "poll" ELSE IF p = "elevenlabs" THEN "upload" ELSE "download"

\* What a provider attempt awaits once its request has been answered:
\* videoService.js:80-81, 152-153, imageService.js:106-107 the sleep at the top
\* of the poll loop; audioService.js:62-69 the upload of the returned audio;
\* imageService.js:58-59 the download of the generated image.
AfterRequest(p) ==
  IF IsPolled(p) THEN "sleep" ELSE IF p = "elevenlabs" THEN "upload" ELSE "download"

\* videoService.js:231  fs.unlink(tempVideoPath), on the path where the upload
\* of the local video returned.
UnlinkedAfterUpload(p, cat, jobId) ==
  IF p = "fallback" /\ cat = "video" THEN {TempVideoPath(jobId)} ELSE {}

\* One resumption of a running provider attempt: the set of results of the
\* awaited call, each with the task after the synchronous code that follows
\* and the storage key written (NoKey when none).
\* and the temporary files created (made) and deleted (gone).
\*   request   axios.post to the provider
\*   sleep     the wait at the top of the poll loop
\*   poll      axios.get of the remote job's status
\*   download  downloadVideo / downloadImage of the remote asset
\*   encode    the local ffmpeg run writing tempVideoPath, and the read of it
\*   upload    storageService.uploadBuffer
StepResults(t, cat, jobId, title) ==
  LET p == t.prov
      fail(out) == Quiet(Throw(t, cat, title, out, 0))
  IN
  CASE t.stage = "request" ->
         { Quiet([t EXCEPT !.stage = AfterRequest(p)]), fail("error") }
    [] t.stage = "sleep" ->
         { Quiet([t EXCEPT !.stage = "poll"]) }
    [] t.stage = "poll" ->
         { Quiet([t EXCEPT !.stage = "download"]),
           fail("nourl"),
           fail("remote_failed"),
           fail("error"),
           IF LoopContinues(t.attempts + 1, PollMax(p))
           THEN Quiet([t EXCEPT !.attempts = @ + 1, !.stage = "sleep"])
           ELSE Quiet(Throw(t, cat, title, "timeout", t.attempts + 1)) }
    [] t.stage = "download" ->
         { Quiet([t EXCEPT !.stage = "upload"]), fail("error") }
    [] t.stage = "encode" ->
         \* ffmpeg ends and readFile returns; ffmpeg fails; readFile fails
         { [t |-> [t EXCEPT !.stage = "upload"], put |-> NoKey,
            made |-> {TempVideoPath(jobId)}, gone |-> {}],
           fail("error"),
           [t |-> Throw(t, cat, title, "error", 0), put |-> NoKey,
            made |-> {TempVideoPath(jobId)}, gone |-> {}] }
    [] OTHER ->
         LET key == StorageKey(jobId, cat, p, ProviderExt(p, cat))
         IN { [t |-> [t EXCEPT !.st = "fulfilled", !.prov = "none", !.stage = "none",
                               !.attempts = 0, !.url = PublicUrl(key),
                               !.error = NoError],
               put |-> key, made |-> {}, gone |-> UnlinkedAfterUpload(p, cat, jobId)],
              fail("upload_error") }

Settled(t) == t.st \in {"fulfilled", "rejected"}


\* ------------------------------------------------------------ job store
\* index.js:60-66  getJob: result.rows[0], undefined when no row matches
getJob(d, jobId) == IF jobId \in DOMAIN d THEN d[jobId] ELSE NoRow

\* A commit that marks the job failed when the asset map is empty.
updateJobMediaFailOnEmpty(d, jobId, mediaAssets) ==
  IF getJob(d, jobId).absent THEN d
  ELSE [d EXCEPT ![jobId].media_url =
                   IF "audio" \in DOMAIN mediaAssets THEN mediaAssets["audio"].url ELSE NoUrl,
                 ![jobId].media_assets = mediaAssets,
                 ![jobId].status = IF DOMAIN mediaAssets = {} THEN "failed"
                                   ELSE "media_complete"]

\* A commit that merges the new entries into the stored asset map.
updateJobMediaMerge(d, jobId, mediaAssets) ==
  IF getJob(d, jobId).absent THEN d
  ELSE [d EXCEPT ![jobId].media_url =
                   IF "audio" \in DOMAIN mediaAssets THEN mediaAssets["audio"].url ELSE NoUrl,
                 ![jobId].media_assets =
                   [c \in DOMAIN @ \cup DOMAIN mediaAssets |->
                      IF c \in DOMAIN mediaAssets THEN mediaAssets[c] ELSE @[c]],
                 ![jobId].status = "media_complete"]

\* A commit that keeps the stored media_url when the map has no audio entry.
updateJobMediaKeepUrl(d, jobId, mediaAssets) ==
  IF getJob(d, jobId).absent THEN d
  ELSE [d EXCEPT ![jobId].media_url =
                   IF "audio" \in DOMAIN mediaAssets THEN mediaAssets["audio"].url ELSE @,
                 ![jobId].media_assets = mediaAssets,
                 ![jobId].status = "media_complete"]

\* A commit that returns without having written the record.
updateJobMediaDropped(d, jobId, mediaAssets) == d

\* index.js:75-80  UPDATE content_jobs SET media_url, media_assets,
\* status = 'media_complete' WHERE id = $3  (no row matched: nothing changes)
updateJobMedia(d, jobId, mediaAssets) ==
  IF getJob(d, jobId).absent THEN d
  ELSE [d EXCEPT ![jobId].media_url =
                   IF "audio" \in DOMAIN mediaAssets THEN mediaAssets["audio"].url ELSE NoUrl,
                 ![jobId].media_assets = mediaAssets,
                 ![jobId].status = "media_complete"]

\* A failure write that inserts the record it does not find.
markFailedUpsert(d, jobId) ==
  IF getJob(d, jobId).absent
  THEN [j \in DOMAIN d \cup {jobId} |->
          IF j = jobId
          THEN [absent |-> FALSE, title |-> NullText, script_text |-> NullText,
                analysis_json |-> "absent", status |-> "failed",
                media_assets |-> NoAssets, media_url |-> NoUrl]
          ELSE d[j]]
  ELSE [d EXCEPT ![jobId].status = "failed"]

\* A failure write that also resets the stored asset map and media_url.
markFailedClearing(d, jobId) ==
  IF getJob(d, jobId).absent THEN d
  ELSE [d EXCEPT ![jobId].status = "failed",
                 ![jobId].media_assets = NoAssets,
                 ![jobId].media_url = NoUrl]

\* A failure write that sets the status of a completed job.
markFailedAsComplete(d, jobId) ==
  IF getJob(d, jobId).absent THEN d ELSE [d EXCEPT ![jobId].status = "media_complete"]

\* index.js:175-178  UPDATE content_jobs SET status = 'failed' WHERE id = $2
markFailed(d, jobId) ==
  IF getJob(d, jobId).absent THEN d ELSE [d EXCEPT ![jobId].status = "failed"]

\* ------------------------------------------------------ one production pass
NoCommit == [done |-> FALSE, status |-> "", assets |-> NoAssets]

\* The processMediaJob invocation of one message.
\*   pc         idle | load | join | formats | commit | failwrite | done
\*   launched   the categories pushed onto mediaPromises, in push order
\*   err        the error the pass raised ("none" while it has raised none)
\*   committed  what a successful updateJobMedia wrote
\*   commits, failWrites   the calls made of the two UPDATE statements
\*   order      the launched categories in the order their promises settled,
\*              while the pass awaits the join
\*   lost       the query the pass awaits was issued on a pool already ended
IdlePass ==
  [pc |-> "idle", body |-> "", jobId |-> "", job |-> NoRow, launched |-> <<>>,
   assets |-> NoAssets, errors |-> <<>>, fmt |-> 0, formats |-> {},
   err |-> "none", committed |-> NoCommit, commits |-> 0, failWrites |-> 0,
   aggregated |-> FALSE, order |-> <<>>, lost |-> FALSE]

\* index.js:123 with >= in place of >
VideoAppliesAtThreshold(script) == Truthy(script) /\ script.len >= VideoScriptThreshold

\* index.js:123  script_text && script_text.length > 100
VideoApplies(script) == Truthy(script) /\ script.len > VideoScriptThreshold

\* index.js:107, 115, 123  the three launch conditions
Applies(cat, row) ==
  CASE cat = "audio" -> Truthy(row.script_text)
    [] cat = "thumbnail" -> Truthy(row.title)
    [] OTHER -> VideoApplies(row.script_text)

SeqIf(b, x) == IF b THEN <<x>> ELSE <<>>

\* The sequence of the first member of q alone (empty when q is).
FirstOf(q) == IF q = <<>> THEN <<>> ELSE <<Head(q)>>

\* A launch sequence that starts the first applicable category alone.
LaunchFirstOnly(row) ==
  [launched |-> FirstOf(SeqIf(Applies("audio", row), "audio")
                          \o SeqIf(Applies("thumbnail", row), "thumbnail")
                          \o SeqIf(Applies("video", row), "video")),
   threw |-> FALSE]

\* index.js:104-128  the synchronous launch sequence.  Evaluating
\* analysis.thumbnail_concepts (line 117) throws a TypeError when analysis is
\* null, after the audio task has been pushed and before the others are.
LaunchPlan(row) ==
  LET analysis == ParseAnalysis(row.analysis_json)
      a == SeqIf(Applies("audio", row), "audio")
  IN IF Applies("thumbnail", row) /\ analysis = "null"
     THEN [launched |-> a, threw |-> TRUE]
     ELSE [launched |-> a \o SeqIf(Applies("thumbnail", row), "thumbnail")
                         \o SeqIf(Applies("video", row), "video"),
           threw |-> FALSE]

Range(q) == {q[i] : i \in DOMAIN q}

\* The categories of q whose promise has settled, in the order of q.
SettledIn(q, ts) == SelectSeq(q, LAMBDA c : Settled(ts[c]))

\* A result list holding only the promise that settled first.
FirstSettled(launched, order) == FirstOf(order)

\* index.js:131  Promise.allSettled(mediaPromises): the results are in the
\* order of mediaPromises, whatever the order in which the promises settled.
SettledResults(launched, order) == launched

RECURSIVE RejectedLabels(_, _, _)
\* index.js:141-143  errors.push(`${['audio','thumbnail','video'][index]}: ...`)
\* for every rejected promise, index being its position in mediaPromises.
RejectedLabels(launched, ts, i) ==
  IF i > Len(launched) THEN <<>>
  ELSE SeqIf(ts[launched[i]].st = "rejected", CategoryLabels[i])
         \o RejectedLabels(launched, ts, i + 1)

\* An aggregation that keeps an entry for every launched category.
AggregateAll(launched, ts) ==
  [c \in Range(launched) |-> [url |-> ts[c].url, generated_at |-> "now"]]

\* index.js:134-144  mediaAssets after the forEach over the settled results
Aggregate(launched, ts) ==
  [c \in {x \in Range(launched) : ts[x].st = "fulfilled"} |->
     [url |-> ts[c].url, generated_at |-> "now"]]

\* A join with the semantics of Promise.all: it rejects when a task rejected.
JoinThrowsOnRejection(launched, ts) ==
  \E c \in Range(launched) : ts[c].st = "rejected"

\* index.js:131  await Promise.allSettled(mediaPromises) never rejects,
\* whatever the promises settled with.
JoinThrows(launched, ts) == FALSE

\* videoService.js:269-313  the ways one resizeVideo call ends: it returns the
\* uploaded URL, or the download, the ffmpeg run or the upload throws.
ResizeOutcomes == {"ok", "download_error", "resize_error", "upload_error"}

\* videoService.js:254-263  results[formatName] is assigned when resizeVideo
\* returned, and skipped when it threw.
FormatRecorded(outcome) == outcome = "ok"

\* A loop over the presentations that ends at the first failure.
LoopStopsOnFailure(i, ok) == ok /\ i < Len(FormatNames)

\* videoService.js:253-264  for (... of Object.entries(formats)) with the
\* try/catch inside the loop body: the next presentation is attempted
\* whatever the outcome of this one.
LoopGoesOn(i, ok) == i < Len(FormatNames)

\* videoService.js:274-291  the temporary files resizeVideo has written when
\* it ends with the given outcome.
ResizeTemps(jobId, name, outcome) ==
  CASE outcome = "download_error" -> {}
    [] outcome = "resize_error" -> {TempInputPath(jobId)}
    [] OTHER -> {TempInputPath(jobId), TempOutputPath(jobId, name)}

\* videoService.js:301-303, 307-310  the files unlinked before resizeVideo
\* returns and, in its catch block, before it rethrows.
ResizeCleanup(jobId, name) == {TempInputPath(jobId), TempOutputPath(jobId, name)}

\* An expansion that drops the video entry when no presentation succeeded.
WithFormatsOrNoVideo(assets, jobId, names) ==
  [c \in (IF names = {} THEN DOMAIN assets \ {"video"} ELSE DOMAIN assets) |->
     IF c = "video"
     THEN [url |-> assets[c].url, generated_at |-> assets[c].generated_at,
           formats |-> [n \in names |->
                          [url |-> PublicUrl(FormatKey(jobId, n)),
                           dimensions |-> FormatConfig(n).dimensions,
                           ratio |-> FormatConfig(n).ratio]]]
     ELSE assets[c]]

\* index.js:153  mediaAssets.video.formats = formats, formats as built by
\* videoService.js:251-266 from the presentations that succeeded.
WithFormats(assets, jobId, names) ==
  [c \in DOMAIN assets |->
     IF c = "video"
     THEN [url |-> assets[c].url, generated_at |-> assets[c].generated_at,
           formats |-> [n \in names |->
                          [url |-> PublicUrl(FormatKey(jobId, n)),
                           dimensions |-> FormatConfig(n).dimensions,
                           ratio |-> FormatConfig(n).ratio]]]
     ELSE assets[c]]


\* ------------------------------------------------------- queue consumer
Garbage == [kind |-> "garbage", job_id |-> ""]

JobRef(j) == [kind |-> "json", job_id |-> j]

Bodies == {Garbage} \cup {JobRef(j) : j \in JobIds}

ClosedChannel == [state |-> "init", prefetch |-> 0]

\* connect() without the prefetch call: the broker's default, no limit.
ConnectWithoutPrefetch == [state |-> "consuming", prefetch |-> 0]

\* index.js:45-53, 203-205  the channel after connect() and consume()
ConnectedChannel == [state |-> "consuming", prefetch |-> PrefetchCount]

\* The broker's side of basic.qos: a prefetch count of 0 means no limit.
MayDeliver(ch, outstanding) ==
  ch.state = "consuming" /\ (ch.prefetch = 0 \/ Cardinality(outstanding) < ch.prefetch)

\* A nack that asks the broker to requeue.
RequeueTrue == TRUE

\* index.js:196  channel.nack(msg, false, false): the requeue argument
RequeueOnNack == FALSE

\* A handler that also acks on its error path (an ack in a finally block).
AckInFinally(a, m) == [a EXCEPT ![m] = @ + 1]

\* index.js:194-197  the catch block of handleMessage makes no ack call
AckedOnError(a, m) == a

\* The ready queue after a nack of message m.
AfterNack(q, m, body) ==
  IF RequeueOnNack THEN Append(q, [tag |-> m, body |-> body]) ELSE q

\* ------------------------------------------------------------- shutdown
\*   stage   how far the SIGINT handler has run: none | channel | connection | db
\*           (the call whose return it awaits)
\*   exited  no | exit0 (process.exit(0), index.js:215) | crash
Running == [stage |-> "none", exited |-> "no"]

Alive == shutdown.exited = "no"

\* index.js:214  db.end() has been called: the pool rejects every later query.
PoolEnded == shutdown.stage = "db"

\* A db.query call: it is lost when the pool has been ended.
dbQuery(p) == [p EXCEPT !.lost = PoolEnded]

\* index.js:193, 196, 204  channel.ack and channel.nack throw on a channel that
\* is closing or closed; thrown from the catch block of handleMessage, the
\* error rejects the promise that the consume callback drops.  The runtime
\* either reports the unhandled rejection and goes on, or ends the process.
unhandledRejection(sd) == {sd, [sd EXCEPT !.exited = "crash"]}

\* The broker's side of a channel close: the messages delivered on the
\* channel and not settled return to the head of the queue, oldest first.
Requeue(q, un, ps) ==
  LET tags == SelectSeq([i \in 1..MaxMsgs |-> i], LAMBDA x : x \in un)
  IN [i \in 1..Len(tags) |-> [tag |-> tags[i], body |-> ps[tags[i]].body]] \o q

\* audioService.js:16  the voice used when ELEVENLABS_VOICE_ID is not set.
DefaultVoiceId == "pNInz6obpgDQGcFmaJgB"

\* The voice ids a deployment may configure in ELEVENLABS_VOICE_ID.
ConfiguredVoiceIds == {DefaultVoiceId, "configured"}

\* The voice ids a caller of generateMultipleVoices asks for.
RequestedVoiceIds == {"v1", "v2"}

\* The lists of voice ids passed to generateMultipleVoices, the empty list
\* (the parameter's default) included.
VoiceLists == UNION {[1..n -> RequestedVoiceIds] : n \in 0..MaxVoices}

\* No call of generateMultipleVoices is under way.
\*   pc               idle | request | returned
\*   voiceIds, i      the argument and the position of the for-of loop
\*   originalVoiceId  the const of the current iteration (audioService.js:143)
\*   audioVariants    the voice ids that have an entry in the result object
\*   atCall           this.elevenLabsVoiceId when the call was made
\*   used             the voice id of the request made by the closing
\*                    generateAudio, "" when it made none
IdleCall ==
  [pc |-> "idle", voiceIds |-> <<>>, i |-> 0, originalVoiceId |-> "",
   audioVariants |-> {}, atCall |-> "", used |-> ""]

\* audioService.js:14-22  the service after construction.
NewAudioService(voiceId) == [elevenLabsVoiceId |-> voiceId, call |-> IdleCall]

\* audioService.js:24-29, 41  the voice id of the ElevenLabs request that
\* generateAudio makes: the field's value at the call; no request without key.
generateAudioVoice(k, svc) == IF k["elevenlabs"] THEN svc.elevenLabsVoiceId ELSE ""

\* The state every run starts in, whatever the deployment and the job table.
Fresh ==
  /\ tempFiles = {}
  /\ shutdown = Running
  /\ storage = {}
  /\ channel = ClosedChannel
  /\ queue = <<>>
  /\ nextTag = 1
  /\ unacked = {}
  /\ acked = [m \in Tags |-> 0]
  /\ nacked = [m \in Tags |-> 0]
  /\ pass = [m \in Tags |-> IdlePass]
  /\ task = [m \in Tags |-> [c \in Categories |-> IdleTask]]

\* One delivery, under every deployment and every job record.
Init ==
  /\ keys \in Deployments
  /\ db \in [JobIds -> Rows \cup {NoRow}]
  /\ toPublish = 1
  /\ Fresh
  /\ audioService = NewAudioService(DefaultVoiceId)

\* A job to which all three categories apply: a title, a script longer than
\* the threshold, analysis metadata that is an object.
FullJob ==
  [absent |-> FALSE, title |-> Str(13), script_text |-> Str(VideoScriptThreshold + 1),
   analysis_json |-> "object", status |-> "processing",
   media_assets |-> NoAssets, media_url |-> NoUrl]

\* A burst of MaxMsgs messages, in the deployment without any credential,
\* for a job that is missing or has all three categories.
InitBurst ==
  /\ keys = NoKeys
  /\ db \in [JobIds -> {FullJob, NoRow}]
  /\ toPublish = MaxMsgs
  /\ Fresh
  /\ audioService = NewAudioService(DefaultVoiceId)

\* One delivery in the deployment without any credential, for a job that is
\* missing or has all three categories; the process may be signalled.
InitShutdown ==
  /\ keys = NoKeys
  /\ db \in [JobIds -> {FullJob, NoRow}]
  /\ toPublish = 1
  /\ Fresh
  /\ audioService = NewAudioService(DefaultVoiceId)

\* index.js:200-207  start(): connect, then consume.  A failed connect
\* rejects start() and the process exits (index.js:222-225).
start ==
  /\ Alive
  /\ channel.state = "init"
  /\ \E ok \in BOOLEAN :
       channel' = IF ok THEN ConnectedChannel ELSE [channel EXCEPT !.state = "exited"]
  /\ UNCHANGED <<keys, db, storage, queue, nextTag, toPublish, unacked, acked, nacked, pass, task, tempFiles, shutdown, audioService>>

\* Another service publishes a message to the durable media queue.
Publish ==
  /\ nextTag <= toPublish
  /\ \E b \in Bodies : queue' = Append(queue, [tag |-> nextTag, body |-> b])
  /\ nextTag' = nextTag + 1
  /\ UNCHANGED <<keys, db, storage, channel, toPublish, unacked, acked, nacked, pass, task, tempFiles, shutdown, audioService>>

\* An invocation that has returned or thrown and has no task still running:
\* nothing of it is referenced any more.
Finished(m) ==
  /\ pass[m].pc = "done"
  /\ \A c \in Categories : task[m][c].st # "running"

\* The invocations as the handling of message m finds them: p is the new
\* invocation for m, and the locals of finished invocations are gone.
Invocations(m, p) ==
  [x \in Tags |->
     IF x = m THEN p
     ELSE IF Finished(x) THEN [IdlePass EXCEPT !.pc = "done"]
     ELSE pass[x]]

\* index.js:187-198  handleMessage, from the delivery to its first await:
\* JSON.parse of the body, then processMediaJob up to the query of getJob.
\* An unparseable body is nacked in the same turn.
handleMessage(m) ==
  /\ Alive
  /\ queue # <<>>
  /\ Head(queue).tag = m
  /\ MayDeliver(channel, unacked)
  /\ LET body == Head(queue).body IN
       IF body.kind = "garbage"
       THEN /\ pass' = Invocations(m, [IdlePass EXCEPT !.pc = "done", !.body = body,
                                                      !.err = "bad_message"])
            /\ nacked' = [nacked EXCEPT ![m] = @ + 1]
            /\ acked' = AckedOnError(acked, m)
            /\ queue' = AfterNack(Tail(queue), m, body)
            /\ unacked' = unacked
       ELSE /\ pass' = Invocations(m, [IdlePass EXCEPT !.pc = "load", !.body = body,
                                                      !.jobId = body.job_id])
            /\ nacked' = nacked
            /\ acked' = acked
            /\ queue' = Tail(queue)
            /\ unacked' = unacked \cup {m}
  /\ task' = [x \in Tags |->
               IF x = m \/ Finished(x) THEN [c \in Categories |-> IdleTask] ELSE task[x]]
  /\ UNCHANGED <<keys, db, storage, channel, nextTag, toPublish, tempFiles, shutdown, audioService>>

\* A catch block that calls updateJobMedia once more when that call failed.
RaiseRetryingCommit(p, e) ==
  dbQuery([p EXCEPT !.pc = IF e = "persistence" /\ p.commits < 2 THEN "commit"
                           ELSE "failwrite",
                    !.err = e])

\* The catch block of processMediaJob is entered (index.js:170-178): the
\* failure UPDATE is issued and awaited.
Raise(p, e) == dbQuery([p EXCEPT !.pc = "failwrite", !.err = e])

\* index.js:93-131  getJob returns (or throws); then, synchronously, the
\* not-found check, the parse of analysis_json and the launch of the tasks,
\* up to the await of Promise.allSettled.
processMediaJob(m) ==
  /\ Alive
  /\ pass[m].pc = "load"
  /\ \E dbOk \in BOOLEAN :
       LET row == getJob(db, pass[m].jobId)
           plan == LaunchPlan(row)
       IN
       IF ~dbOk THEN
         /\ pass' = [pass EXCEPT ![m] = Raise(@, "db_error")]
         /\ task' = task
       ELSE IF row.absent THEN
         /\ pass' = [pass EXCEPT ![m] = Raise(@, "not_found")]
         /\ task' = task
       ELSE IF ParseAnalysis(row.analysis_json) = "throws" THEN
         /\ pass' = [pass EXCEPT ![m] = Raise([@ EXCEPT !.job = row], "bad_analysis")]
         /\ task' = task
       ELSE
         /\ task' = [task EXCEPT ![m] =
                       [c \in Categories |->
                          IF c \in Range(plan.launched)
                          THEN Launch(c, keys, row.title) ELSE IdleTask]]
         /\ pass' = [pass EXCEPT ![m] =
                       IF plan.threw
                       THEN Raise([@ EXCEPT !.job = row, !.launched = plan.launched],
                                  "type_error")
                       ELSE [@ EXCEPT !.pc = "join", !.job = row,
                                      !.launched = plan.launched,
                                      !.order = SettledIn(plan.launched, task'[m])]]
  /\ UNCHANGED <<keys, db, storage, channel, queue, nextTag, toPublish, unacked, acked, nacked, tempFiles, shutdown, audioService>>

\* One resumption of the provider attempt that category c's task of pass m is
\* awaiting, when that provider is p.
ProviderStep(m, c, p) ==
  /\ Alive
  /\ task[m][c].st = "running"
  /\ task[m][c].prov = p
  /\ \E r \in StepResults(task[m][c], c, pass[m].jobId, pass[m].job.title) :
       /\ task' = [task EXCEPT ![m][c] = r.t]
       /\ storage' = IF r.put = NoKey THEN storage ELSE storage \cup {r.put}
       /\ tempFiles' = (tempFiles \cup r.made) \ r.gone
       /\ pass' = IF Settled(r.t) /\ pass[m].pc = "join"
                  THEN [pass EXCEPT ![m].order = Append(@, c)]
                  ELSE pass
  /\ UNCHANGED <<keys, db, channel, queue, nextTag, toPublish, unacked, acked, nacked, shutdown, audioService>>

\* audioService.js:38-79
generateElevenLabsAudio(m) == ProviderStep(m, "audio", "elevenlabs")

\* audioService.js:81-96
generateFallbackAudio(m) == ProviderStep(m, "audio", "fallback")

\* imageService.js:34-76
generateDALLEThumbnail(m) == ProviderStep(m, "thumbnail", "dalle")

\* imageService.js:78-148
generateMidjourneyThumbnail(m) == ProviderStep(m, "thumbnail", "midjourney")

\* imageService.js:150-216
generateFallbackThumbnail(m) == ProviderStep(m, "thumbnail", "fallback")

\* videoService.js:52-122
generatePictoryVideo(m) == ProviderStep(m, "video", "pictory")

\* videoService.js:124-194
generateRunwayVideo(m) == ProviderStep(m, "video", "runway")

\* videoService.js:196-240
generateFallbackVideo(m) == ProviderStep(m, "video", "fallback")


\* index.js:131-160  Promise.allSettled resolves once every launched task has
\* settled; the results are aggregated and either format expansion
\* (a video entry exists) or updateJobMedia is awaited.
allSettled(m) ==
  /\ Alive
  /\ pass[m].pc = "join"
  /\ \A c \in Range(pass[m].launched) : Settled(task[m][c])
  /\ LET results == SettledResults(pass[m].launched, pass[m].order)
         assets == Aggregate(results, task[m])
         errors == RejectedLabels(results, task[m], 1)
         hasVideo == "video" \in DOMAIN assets
         next == [pass[m] EXCEPT !.assets = assets, !.errors = errors,
                                 !.aggregated = TRUE, !.order = <<>>,
                                 !.pc = IF hasVideo THEN "formats" ELSE "commit",
                                 !.fmt = IF hasVideo THEN 1 ELSE 0]
     IN pass' = [pass EXCEPT ![m] =
                   IF JoinThrows(pass[m].launched, task[m])
                   THEN Raise([@ EXCEPT !.order = <<>>], "provider_error")
                   ELSE IF hasVideo THEN next ELSE dbQuery(next)]
  /\ UNCHANGED <<keys, db, storage, channel, queue, nextTag, toPublish, unacked, acked, nacked, task, tempFiles, shutdown, audioService>>

\* videoService.js:253-264, 269-313  one iteration of generateMultipleFormats:
\* resizeVideo of the next presentation either uploads the resized file or
\* throws, and a throw is caught and logged by the loop; its temporary files
\* are unlinked either way.  After the last presentation the formats are
\* attached (index.js:153) and updateJobMedia is awaited.
resizeVideo(m) ==
  /\ Alive
  /\ pass[m].pc = "formats"
  /\ LET name == FormatNames[pass[m].fmt]
         jobId == pass[m].jobId
     IN \E outcome \in ResizeOutcomes :
          LET names == IF FormatRecorded(outcome) THEN pass[m].formats \cup {name}
                       ELSE pass[m].formats
          IN /\ storage' = IF outcome = "ok" THEN storage \cup {FormatKey(jobId, name)}
                           ELSE storage
             /\ tempFiles' = (tempFiles \cup ResizeTemps(jobId, name, outcome))
                               \ ResizeCleanup(jobId, name)
             /\ pass' = [pass EXCEPT ![m] =
                           IF LoopGoesOn(pass[m].fmt, outcome = "ok")
                           THEN [@ EXCEPT !.formats = names, !.fmt = @ + 1]
                           ELSE dbQuery([@ EXCEPT !.formats = names, !.pc = "commit",
                                                  !.assets = WithFormats(@, jobId, names)])]
  /\ UNCHANGED <<keys, db, channel, queue, nextTag, toPublish, unacked, acked, nacked, task, shutdown, audioService>>

\* index.js:160-168, 192-196  the UPDATE of updateJobMedia returns.  On
\* failure the catch block of processMediaJob is entered.  On success
\* processMediaJob returns and handleMessage acks; on a channel that is no
\* longer open the ack throws, and so does the nack of the catch block.
awaitUpdateJobMedia(m) ==
  /\ Alive
  /\ pass[m].pc = "commit"
  /\ \E ok \in BOOLEAN, sd \in unhandledRejection(shutdown) :
       IF pass[m].lost \/ ~ok
       THEN /\ db' = db
            /\ pass' = [pass EXCEPT ![m] =
                          Raise([@ EXCEPT !.commits = @ + 1],
                                IF pass[m].lost THEN "pool_ended" ELSE "persistence")]
            /\ UNCHANGED <<acked, unacked, shutdown>>
       ELSE /\ db' = updateJobMedia(db, pass[m].jobId, pass[m].assets)
            /\ pass' = [pass EXCEPT ![m] =
                          [@ EXCEPT !.pc = "done", !.commits = @ + 1,
                                    !.err = IF channel.state = "consuming" THEN @
                                            ELSE "channel_closed",
                                    !.committed =
                                      [done |-> TRUE,
                                       status |-> getJob(db', pass[m].jobId).status,
                                       assets |-> getJob(db', pass[m].jobId).media_assets]]]
            /\ IF channel.state = "consuming"
               THEN /\ acked' = [acked EXCEPT ![m] = @ + 1]
                    /\ unacked' = unacked \ {m}
                    /\ shutdown' = shutdown
               ELSE /\ UNCHANGED <<acked, unacked>>
                    /\ shutdown' = sd
  /\ UNCHANGED <<keys, storage, channel, queue, nextTag, toPublish, nacked, task, tempFiles, audioService>>

\* index.js:174-183, 194-196  the failure UPDATE returns (an error of it is
\* logged and swallowed), the original error is rethrown and handleMessage
\* nacks the message; on a channel that is no longer open the nack throws.
failureWrite(m) ==
  /\ Alive
  /\ pass[m].pc = "failwrite"
  /\ \E ok \in BOOLEAN :
       db' = IF ok /\ ~pass[m].lost THEN markFailed(db, pass[m].jobId) ELSE db
  /\ pass' = [pass EXCEPT ![m] = [@ EXCEPT !.pc = "done", !.failWrites = @ + 1]]
  /\ IF channel.state = "consuming"
     THEN /\ nacked' = [nacked EXCEPT ![m] = @ + 1]
          /\ acked' = AckedOnError(acked, m)
          /\ unacked' = unacked \ {m}
          /\ queue' = AfterNack(queue, m, pass[m].body)
          /\ shutdown' = shutdown
     ELSE /\ UNCHANGED <<nacked, acked, unacked, queue>>
          /\ shutdown' \in unhandledRejection(shutdown)
  /\ UNCHANGED <<keys, storage, channel, nextTag, toPublish, task, tempFiles, audioService>>

\* index.js:210-212  the SIGINT handler, up to its first await: the close of
\* the channel is sent; from now on the channel accepts no delivery.
SIGINT ==
  /\ Alive
  /\ shutdown.stage = "none"
  /\ channel.state = "consuming"
  /\ shutdown' = [shutdown EXCEPT !.stage = "channel"]
  /\ channel' = [channel EXCEPT !.state = "closing"]
  /\ UNCHANGED <<keys, db, storage, queue, nextTag, toPublish, unacked, acked, nacked, pass, task, tempFiles, audioService>>

\* index.js:212-213  channel.close() returns (the broker has closed the
\* channel and requeued what was unsettled); connection.close() is called.
afterChannelClose ==
  /\ Alive
  /\ shutdown.stage = "channel"
  /\ shutdown' = [shutdown EXCEPT !.stage = "connection"]
  /\ channel' = [channel EXCEPT !.state = "closed"]
  /\ queue' = Requeue(queue, unacked, pass)
  /\ unacked' = {}
  /\ UNCHANGED <<keys, db, storage, nextTag, toPublish, acked, nacked, pass, task, tempFiles, audioService>>

\* index.js:213-214  connection.close() returns; db.end() is called.
afterConnectionClose ==
  /\ Alive
  /\ shutdown.stage = "connection"
  /\ shutdown' = [shutdown EXCEPT !.stage = "db"]
  /\ UNCHANGED <<keys, db, storage, channel, queue, nextTag, toPublish, unacked, acked, nacked, pass, task, tempFiles, audioService>>

\* index.js:214-215  db.end() returns, once no query issued before it is
\* still running; process.exit(0).
processExit ==
  /\ Alive
  /\ shutdown.stage = "db"
  /\ \A m \in Tags : pass[m].pc \in {"load", "commit", "failwrite"} => pass[m].lost
  /\ shutdown' = [shutdown EXCEPT !.exited = "exit0"]
  /\ UNCHANGED <<keys, db, storage, channel, queue, nextTag, toPublish, unacked, acked, nacked, pass, task, tempFiles, audioService>>

TaskStep(m) ==
  \/ generateElevenLabsAudio(m)
  \/ generateFallbackAudio(m)
  \/ generateDALLEThumbnail(m)
  \/ generateMidjourneyThumbnail(m)
  \/ generateFallbackThumbnail(m)
  \/ generatePictoryVideo(m)
  \/ generateRunwayVideo(m)
  \/ generateFallbackVideo(m)

\* What the consumer process does on its own once an awaited call returns.
ConsumerStep ==
  \/ start
  \/ \E m \in Tags :
       \/ handleMessage(m)
       \/ processMediaJob(m)
       \/ TaskStep(m)
       \/ allSettled(m)
       \/ resizeVideo(m)
       \/ awaitUpdateJobMedia(m)
       \/ failureWrite(m)

Next == Publish \/ ConsumerStep

Spec == Init /\ [][Next]_vars

\* Every awaited call returns and the event loop runs every continuation that
\* is ready.
LiveSpec == Init /\ [][Next]_vars /\ WF_vars(ConsumerStep)

SpecBurst == InitBurst /\ [][Next]_vars

\* The process receives SIGINT at any moment after start() has returned.
Shutdown ==
  \/ SIGINT
  \/ afterChannelClose
  \/ afterConnectionClose
  \/ processExit

NextShutdown == Next \/ Shutdown

SpecShutdown == InitShutdown /\ [][NextShutdown]_vars

\* ------------------------------------------------- generateMultipleVoices
\* No message is published; the deployment has the ElevenLabs key or not and
\* configures a voice id or leaves the default.
InitVoices ==
  /\ keys \in {NoKeys, WithKeys({"elevenlabs"})}
  /\ db = [j \in JobIds |-> NoRow]
  /\ toPublish = 0
  /\ Fresh
  /\ audioService \in {NewAudioService(v) : v \in ConfiguredVoiceIds}

\* audioService.js:134-145  a call of generateMultipleVoices up to its first
\* await.  Without key or with an empty list it returns generateAudio's
\* result; otherwise the first iteration saves the field, sets it to the
\* first voice id and sends the request.
generateMultipleVoices ==
  /\ audioService.call.pc \in {"idle", "returned"}
  /\ \E voiceIds \in VoiceLists :
       LET svc == audioService
           entered == [IdleCall EXCEPT !.voiceIds = voiceIds,
                                       !.atCall = svc.elevenLabsVoiceId]
       IN audioService' =
            IF ~keys["elevenlabs"] \/ Len(voiceIds) = 0
            THEN [svc EXCEPT !.call = [entered EXCEPT !.pc = "returned",
                                                      !.used = generateAudioVoice(keys, svc)]]
            ELSE [elevenLabsVoiceId |-> voiceIds[1],
                  call |-> [entered EXCEPT !.pc = "request", !.i = 1,
                                           !.originalVoiceId = svc.elevenLabsVoiceId]]
  /\ UNCHANGED <<keys, db, storage, channel, queue, nextTag, toPublish, unacked, acked, nacked,
                 pass, task, tempFiles, shutdown>>

\* audioService.js:145-155  the request of the current voice settles.  When
\* it succeeded the variant is recorded and the field is set back to
\* originalVoiceId (147-149); when it threw, the catch block logs and the
\* field stays (150-152).  Then the next iteration saves the field as it is
\* now and sets the next voice id, or the loop ends and the call returns the
\* variants, or generateAudio's result when there is none (155).
voiceRequestSettles ==
  /\ audioService.call.pc = "request"
  /\ \E ok \in BOOLEAN :
       LET svc == audioService
           c == svc.call
           field == IF ok THEN c.originalVoiceId ELSE svc.elevenLabsVoiceId
           variants == IF ok THEN c.audioVariants \cup {c.voiceIds[c.i]} ELSE c.audioVariants
           after == [elevenLabsVoiceId |-> field,
                     call |-> [c EXCEPT !.audioVariants = variants]]
       IN audioService' =
            IF c.i < Len(c.voiceIds)
            THEN [elevenLabsVoiceId |-> c.voiceIds[c.i + 1],
                  call |-> [after.call EXCEPT !.i = c.i + 1, !.originalVoiceId = field]]
            ELSE [after EXCEPT !.call.pc = "returned",
                               !.call.used = IF variants = {}
                                             THEN generateAudioVoice(keys, after) ELSE ""]
  /\ UNCHANGED <<keys, db, storage, channel, queue, nextTag, toPublish, unacked, acked, nacked,
                 pass, task, tempFiles, shutdown>>

NextVoices == generateMultipleVoices \/ voiceRequestSettles

SpecVoices == InitVoices /\ [][NextVoices]_vars


\* ============================================================ properties
LaunchedSet(m) == Range(pass[m].launched)

SucceededSet(m) == {c \in LaunchedSet(m) : task[m][c].st = "fulfilled"}

FailedSet(m) == {c \in LaunchedSet(m) : task[m][c].st = "rejected"}

SettledCount(m) == acked[m] + nacked[m]

\* C1: in a pass whose job loads and whose commit succeeds, the committed
\* status is failed when at least one category was applicable and every
\* applicable category's task failed, and media_complete otherwise.
C1_StatusReflectsOutcome ==
  \A m \in Tags :
    pass[m].committed.done =>
      pass[m].committed.status =
        IF LaunchedSet(m) # {} /\ FailedSet(m) = LaunchedSet(m)
        THEN "failed" ELSE "media_complete"

\* C2: the aggregation, every write to the job record and the ack or nack of
\* the message happen only after every category task launched in the pass
\* has settled.
C2_EffectsAfterBarrier ==
  \A m \in Tags :
    (pass[m].aggregated \/ pass[m].commits > 0 \/ pass[m].failWrites > 0
       \/ SettledCount(m) > 0)
      => \A c \in LaunchedSet(m) : Settled(task[m][c])

\* C3: the committed asset map has an entry for a category exactly when that
\* category's task was launched and succeeded in this pass, the entry holds
\* the URL the task produced, and the status is media_complete whenever some
\* category succeeded, also when another one failed.
C3_AssetMapIffSucceeded ==
  \A m \in Tags :
    pass[m].committed.done =>
      /\ DOMAIN pass[m].committed.assets = SucceededSet(m)
      /\ \A c \in SucceededSet(m) : pass[m].committed.assets[c].url = task[m][c].url
      /\ (SucceededSet(m) # {} => pass[m].committed.status = "media_complete")

\* C3 witness: a committed pass in which one category failed and another
\* succeeded.
C3_Witness ==
  \E m \in Tags :
    /\ pass[m].committed.done
    /\ FailedSet(m) # {}
    /\ SucceededSet(m) # {}

\* The remote providers of a category's chain, in the order of the claim.
ChainRemotes(c) ==
  CASE c = "audio" -> <<"elevenlabs">>
    [] c = "thumbnail" -> <<"dalle", "midjourney">>
    [] OTHER -> <<"pictory", "runway">>

ConfiguredRemotes(c) == {p \in Range(ChainRemotes(c)) : keys[p]}

\* The remote providers whose attempt has failed in a task: the chain's catch
\* block holds the error of the one attempt made in its try block.
FailedRemotes(t) ==
  IF t.inCatch /\ t.error.p \in RemoteProviders THEN {t.error.p} ELSE {}

\* C4: the local fallback of a chain is attempted only after every configured
\* remote provider of the chain has been attempted and has failed (so a
\* configured secondary is attempted whenever the primary failed).
C4_FallbackAfterEveryRemote ==
  \A m \in Tags : \A c \in Categories :
    (task[m][c].st = "running" /\ task[m][c].prov = "fallback")
      => ConfiguredRemotes(c) \subseteq FailedRemotes(task[m][c])

\* The maximum number of polls the claim names for each polled provider.
ClaimedMaxPolls(p) ==
  CASE p = "pictory" -> 30
    [] p = "runway" -> 20
    [] OTHER -> 20

InProgress(m) == pass[m].pc \notin {"idle", "done"}

\* C6: the consumer holds at most one unacknowledged message, and no
\* message's processing is under way unless it is that one message.
C6_OneUnacked ==
  /\ Cardinality(unacked) <= 1
  /\ \A m \in Tags : InProgress(m) => unacked = {m}

\* C6 witness: a message is being processed while another one waits on the
\* queue.
C6_Witness ==
  \E m \in Tags : InProgress(m) /\ queue # <<>> /\ pass[m].pc = "commit"

\* C7: every message handed to handleMessage is eventually settled, it is
\* settled exactly once (never acked and nacked, never twice), and only a
\* finished invocation has settled its message.
C7_SettledExactlyOnce ==
  /\ [](\A m \in Tags :
          /\ SettledCount(m) <= 1
          /\ (SettledCount(m) = 1 => pass[m].pc = "done")
          /\ (InProgress(m) => SettledCount(m) = 0))
  /\ \A m \in Tags : (pass[m].pc # "idle") ~> (SettledCount(m) = 1)

\* C7 witness: a message acknowledged after its pass went through format
\* expansion.
C7_Witness ==
  \E m \in Tags :
    /\ acked[m] = 1 /\ nacked[m] = 0
    /\ pass[m].pc = "done"
    /\ pass[m].formats # {}

\* C8: a message whose handling raised an error is never acknowledged, is
\* nacked once the handler is done, and is not put back on the queue.
C8_ErrorsRejectWithoutRequeue ==
  \A m \in Tags :
    pass[m].err # "none" =>
      /\ acked[m] = 0
      /\ (pass[m].pc = "done" => nacked[m] = 1 /\ m \notin unacked)
      /\ \A i \in DOMAIN queue : queue[i].tag # m

\* C8 witness: a pass that raised on malformed analysis metadata and whose
\* message has been rejected.
C8_Witness ==
  \E m \in Tags :
    pass[m].err = "bad_analysis" /\ pass[m].pc = "done" /\ nacked[m] = 1

\* C9: when the job cannot be loaded, no task is launched, nothing is
\* uploaded under the job's id, nothing is committed, no record of the job
\* exists afterwards, and the message is rejected, never acknowledged.
C9_JobNotFound ==
  \A m \in Tags :
    pass[m].err = "not_found" =>
      /\ pass[m].launched = <<>>
      /\ \A c \in Categories : task[m][c].st = "idle"
      /\ \A k \in storage : k.job # pass[m].jobId
      /\ pass[m].commits = 0 /\ ~pass[m].committed.done
      /\ getJob(db, pass[m].jobId).absent
      /\ acked[m] = 0
      /\ (pass[m].pc = "done" => nacked[m] = 1)

\* C9 witness: the failure write of a pass for a missing job has returned.
C9_Witness ==
  \E m \in Tags :
    pass[m].err = "not_found" /\ pass[m].pc = "done" /\ pass[m].failWrites = 1

\* The applicability policy in the words of the claim.
PolicySet(row) ==
  {c \in Categories :
     CASE c = "audio" -> (~row.script_text.null) /\ row.script_text.len > 0
       [] c = "thumbnail" -> (~row.title.null) /\ row.title.len > 0
       [] OTHER -> (~row.script_text.null) /\ row.script_text.len > 100}

\* The invocation went through the whole launch sequence without raising.
PastLaunch(m) ==
  \/ pass[m].pc \in {"join", "formats", "commit"}
  \/ pass[m].err = "persistence"
  \/ pass[m].committed.done

TitleAndScriptOf(row, n) ==
  /\ ~row.absent
  /\ (~row.title.null) /\ row.title.len > 0
  /\ (~row.script_text.null) /\ row.script_text.len >= n

\* All three category tasks of pass m have been started.
AllThreeLaunched(m) ==
  /\ pass[m].launched = <<"audio", "thumbnail", "video">>
  /\ \A c \in Categories : task[m][c].st # "idle"

\* The step of pass m that ends its launch sequence starts all three tasks
\* together: none was started before it, all are running after it.
AllThreeStartedInOneStep(m) ==
  /\ \A c \in Categories : task[m][c].st = "idle"
  /\ \A c \in Categories : task'[m][c].st = "running"

Arrangements(q) ==
  {p \in [1..Len(q) -> Range(q)] : \A i, j \in 1..Len(q) : p[i] = p[j] => i = j}

\* C12: the committed asset map and status depend on the outcome of each
\* category (fulfilled with a URL, or rejected) and not on the order in which
\* the tasks completed: whatever the completion order at the join, the map
\* the join produces is the one that aggregating the same outcomes in any
\* other order gives, its categories are the fulfilled ones, each with its
\* task's URL, and the commit stores these with status media_complete.
C12_OrderIndependent ==
  /\ [][\A m \in Tags :
          (pass[m].pc = "join" /\ pass'[m].pc # "join") =>
            /\ Range(pass[m].order) = LaunchedSet(m)
            /\ \A o \in Arrangements(pass[m].order) :
                 LET a == Aggregate(o, task[m]) IN
                 /\ DOMAIN a = DOMAIN pass'[m].assets
                 /\ DOMAIN a = {c \in Categories : task[m][c].st = "fulfilled"}
                 /\ \A c \in DOMAIN a :
                      /\ a[c].url = pass'[m].assets[c].url
                      /\ a[c].url = task[m][c].url]_vars
  /\ [](\A m \in Tags :
          pass[m].committed.done =>
            /\ pass[m].committed.status = "media_complete"
            /\ DOMAIN pass[m].committed.assets = DOMAIN pass[m].assets
            /\ \A c \in DOMAIN pass[m].assets :
                 pass[m].committed.assets[c].url = pass[m].assets[c].url)

\* C12 witness: the three tasks of a pass have completed in the reverse of
\* their launch order, the last one to complete having failed, and the join
\* is about to aggregate them.
C12_Witness ==
  \E m \in Tags :
    /\ pass[m].pc = "join"
    /\ pass[m].launched = <<"audio", "thumbnail", "video">>
    /\ pass[m].order = <<"video", "thumbnail", "audio">>
    /\ task[m]["audio"].st = "rejected"
    /\ task[m]["video"].st = "fulfilled"

\* A text column that is NULL or the empty string.
EmptyText(t) == t.null \/ t.len = 0

\* Pass m has loaded a job whose title and script are both empty.
NothingApplies(m) ==
  /\ ~pass[m].job.absent
  /\ EmptyText(pass[m].job.title)
  /\ EmptyText(pass[m].job.script_text)

\* C13: a pass for a job with an empty title and an empty script launches no
\* task and uploads nothing; the only errors it can raise are a malformed
\* analysis document and a failed commit, and when it raises none it has
\* committed an empty asset map with status media_complete and acknowledged
\* the message.
C13_NothingApplies ==
  \A m \in Tags :
    NothingApplies(m) =>
      /\ pass[m].launched = <<>>
      /\ \A c \in Categories : task[m][c].st = "idle"
      /\ \A k \in storage : k.job # pass[m].jobId
      /\ pass[m].err \in {"none", "bad_analysis", "persistence"}
      /\ (pass[m].pc = "done" /\ pass[m].err = "none" =>
            /\ pass[m].committed.done
            /\ pass[m].committed.assets = NoAssets
            /\ pass[m].committed.status = "media_complete"
            /\ getJob(db, pass[m].jobId).media_assets = NoAssets
            /\ getJob(db, pass[m].jobId).status = "media_complete"
            /\ acked[m] = 1 /\ nacked[m] = 0)

\* C13 witness: the pass of a job with an empty title and an empty script has
\* committed and its message is acknowledged.
C13_Witness ==
  \E m \in Tags :
    /\ ~pass[m].job.absent
    /\ pass[m].job.title = Str(0) /\ pass[m].job.script_text = Str(0)
    /\ pass[m].pc = "done" /\ pass[m].committed.done /\ acked[m] = 1

\* The error with which the local fallback of a task has failed, if it has:
\* the reason of a rejected task is always the error of its fallback.
FallbackFailure(t) == t.st = "rejected" /\ t.error.p = "fallback"

\* C14: for a job with a non-empty title or a non-empty script, the local
\* fallback of an applicable category fails only when the storage upload
\* fails.
C14_FallbackFailsOnlyAtUpload ==
  \A m \in Tags : \A c \in Categories :
    (/\ FallbackFailure(task[m][c])
     /\ ~pass[m].job.absent
     /\ (~EmptyText(pass[m].job.title) \/ ~EmptyText(pass[m].job.script_text)))
      => task[m][c].error.out = "upload_error"

\* C15: every invocation of a provider chain terminates when each awaited
\* call returns: the finitely many chains started during a run have all
\* settled from some point on (none is running any more), a task that rejects
\* has failed in its local fallback, a task that fulfils has a URL, and no
\* poll loop goes past its maximum number of polls.
C15_ChainTerminates ==
  /\ [](\A m \in Tags : \A c \in Categories :
          LET t == task[m][c] IN
          /\ (t.st = "rejected" => t.error.p = "fallback")
          /\ (t.st = "fulfilled" => t.url # NoUrl)
          /\ (t.stage = "poll" => t.attempts < ClaimedMaxPolls(t.prov)))
  /\ <>[](\A m \in Tags : \A c \in Categories : task[m][c].st # "running")

\* C15 witness: in a deployment with Runway configured, a video task rejected
\* by the failure of the local fallback run in the catch block.
C15_Witness ==
  \E m \in Tags :
    /\ task[m]["video"].st = "rejected"
    /\ task[m]["video"].inCatch
    /\ keys["runway"] /\ ~keys["pictory"]
    /\ task[m]["video"].error.p = "fallback"

\* The storage keys an asset map refers to: the key of each entry's URL and
\* the keys of the presentations of its video entry.
MapKeys(map) ==
  {map[c].url.key : c \in DOMAIN map}
    \cup (IF "video" \in DOMAIN map /\ "formats" \in DOMAIN map["video"]
          THEN {map["video"].formats[n].url.key : n \in DOMAIN map["video"].formats}
          ELSE {})

\* The storage keys pass m has written: one per fulfilled task and one per
\* presentation it expanded.
PassKeys(m) ==
  {task[m][c].url.key : c \in SucceededSet(m)}
    \cup {FormatKey(pass[m].jobId, n) : n \in pass[m].formats}

\* Pass m has committed for a job that an earlier pass had already committed.
Reprocessed(m) ==
  /\ pass[m].committed.done
  /\ pass[m].job.status = "media_complete"

ContractNames ==
  {<<c, p>> : c \in Categories, p \in RemoteProviders \cup {"fallback"}}
    \cup {<<"landscape">>, <<"portrait">>, <<"square">>}

\* C18: every key in the bucket has the contract's form: a primary asset is
\* under jobs/{jobId}/{category}_{providerName}.{ext}, and an expanded video
\* presentation under jobs/{jobId}/{presentationName}.{ext}.
C18_KeysHaveContractForm ==
  \A k \in storage :
    /\ k.job \in JobIds
    /\ k.name \in ContractNames
    /\ (Len(k.name) = 2 => k.name[2] \notin {"landscape", "portrait", "square"})

\* The scenario of C19: no credential configured, and pass m has loaded a
\* job with a non-empty title, a script of 150 characters and an analysis
\* document.
FallbackScenario(m) ==
  /\ keys = NoKeys
  /\ ~pass[m].job.absent
  /\ ~EmptyText(pass[m].job.title)
  /\ pass[m].job.script_text = Str(150)
  /\ pass[m].job.analysis_json = "object"

\* No local step and no upload of pass m has failed so far.
NothingFailed(m) == \A c \in Categories : ~task[m][c].inCatch

C20_EntriesRecordProvider ==
  \A m \in Tags :
    pass[m].committed.done =>
      \A c \in DOMAIN pass[m].committed.assets :
        LET e == pass[m].committed.assets[c] IN
        /\ {"url", "generated_at", "provider"} \subseteq DOMAIN e
        /\ e.provider = e.url.key.name[2]

\* C21: the status of a job never moves backward: over any sequence of
\* deliveries, a step that writes to a job's record (its status, its assets)
\* finds that job in status processing; a record that is media_complete or
\* failed is never written again.
C21_StatusForwardOnly ==
  [][\A j \in JobIds :
       (~db[j].absent /\ db'[j] # db[j]) => db[j].status = "processing"]_vars

\* The errors a pass raises for a reason other than a provider chain.
WholeJobErrors ==
  {"bad_message", "db_error", "not_found", "bad_analysis", "type_error", "persistence"}

\* C22: a failure inside a provider chain never fails the pass: no error a
\* pass raises comes from a chain; once the join has been passed, whatever
\* tasks failed, the only error left is a failed commit; and when the commit
\* succeeds the pass has raised nothing, the message is acked and not nacked,
\* and the failed categories are exactly the launched ones missing from the
\* committed map.
C22_ChainFailureNeverFailsPass ==
  \A m \in Tags :
    /\ pass[m].err \in {"none"} \cup WholeJobErrors
    /\ (pass[m].pc = "join" => pass[m].err = "none")
    /\ (pass[m].aggregated => pass[m].err \in {"none", "persistence"})
    /\ (pass[m].committed.done =>
          /\ pass[m].err = "none"
          /\ acked[m] = 1 /\ nacked[m] = 0
          /\ LaunchedSet(m) \ DOMAIN pass[m].committed.assets = FailedSet(m))

\* C22 witness: every category was launched and failed, one of them at the
\* upload of its local fallback, and the pass committed and acked.
C22_Witness ==
  \E m \in Tags :
    /\ pass[m].committed.done
    /\ acked[m] = 1
    /\ FailedSet(m) = Categories
    /\ \E c \in Categories : task[m][c].error = Thrown("fallback", "upload_error", 0)

\* C23: format expansion is invoked in a pass exactly when the aggregated map
\* has a video entry; it runs after the join (every launched task settled,
\* the map aggregated) and before the commit is issued; and whatever the
\* expansion produced, also nothing, the commit writes media_complete with
\* an entry for exactly the categories that succeeded, holding their URLs.
C23_FormatExpansion ==
  \A m \in Tags :
    /\ (pass[m].fmt > 0) <=> (pass[m].aggregated /\ "video" \in DOMAIN pass[m].assets)
    /\ (pass[m].pc = "formats" =>
          /\ pass[m].fmt > 0
          /\ pass[m].commits = 0 /\ ~pass[m].committed.done
          /\ \A c \in LaunchedSet(m) : Settled(task[m][c]))
    /\ (pass[m].fmt = 0 => pass[m].formats = {})
    /\ (pass[m].committed.done =>
          /\ pass[m].committed.status = "media_complete"
          /\ DOMAIN pass[m].committed.assets = SucceededSet(m)
          /\ \A c \in SucceededSet(m) : pass[m].committed.assets[c].url = task[m][c].url)

\* C23 witness: a committed pass whose expansion failed for every
\* presentation, with the video and the audio entry in the committed map.
C23_Witness ==
  \E m \in Tags :
    /\ pass[m].committed.done
    /\ pass[m].fmt = Len(FormatNames)
    /\ pass[m].formats = {}
    /\ {"video", "audio"} \subseteq DOMAIN pass[m].committed.assets
    /\ pass[m].committed.status = "media_complete"

\* The presentations whose resized file is in the bucket for job j.
UploadedFormats(j) == {n \in Range(FormatNames) : FormatKey(j, n) \in storage}

\* C24: format expansion attempts every presentation whatever the outcome of
\* the others (once it has returned, all of landscape, portrait and square
\* have been attempted), and the format map holds an entry for a
\* presentation exactly when that presentation was resized and uploaded (its
\* object is in the bucket), in the pass and in the committed video entry.
C24_EveryPresentationAttempted ==
  \A m \in Tags :
    /\ (pass[m].fmt > 0 /\ pass[m].pc # "formats") => pass[m].fmt = Len(FormatNames)
    /\ (pass[m].fmt > 0 => pass[m].formats = UploadedFormats(pass[m].jobId))
    /\ (pass[m].pc = "formats" =>
          pass[m].formats \subseteq {FormatNames[i] : i \in 1..(pass[m].fmt - 1)})
    /\ (pass[m].committed.done /\ "video" \in DOMAIN pass[m].committed.assets =>
          DOMAIN pass[m].committed.assets["video"].formats
            = UploadedFormats(pass[m].jobId))

\* C24 witness: landscape and square failed, portrait succeeded, and the
\* committed video entry holds the portrait format alone.
C24_Witness ==
  \E m \in Tags :
    /\ pass[m].committed.done
    /\ "video" \in DOMAIN pass[m].committed.assets
    /\ DOMAIN pass[m].committed.assets["video"].formats = {"portrait"}
    /\ pass[m].fmt = Len(FormatNames)

\* The local video fallback is running in some pass.
FallbackVideoRunning ==
  \E m \in Tags : task[m]["video"].st = "running" /\ task[m]["video"].prov = "fallback"

\* C25: every temporary file created by generateFallbackVideo or by
\* resizeVideo has been deleted when the operation that created it has
\* returned or thrown: while no local video fallback is running, the
\* temporary directory holds no file.
C25_TempFilesDeleted == ~FallbackVideoRunning => tempFiles = {}

\* The SIGINT handler has started.
Signalled == shutdown.stage # "none"

\* The errors a pass can only raise because of the shutdown.
ShutdownErrors == {"pool_ended", "channel_closed"}

\* After the signal no further message begins to be processed.
NoNewMessageAfterSignal ==
  [][Signalled => \A m \in Tags : pass[m].pc = "idle" => pass'[m].pc = "idle"]_vars

\* When the process has exited, the channel and then the connection had been
\* closed (the handler was awaiting db.end()).
ClosedBeforeExit ==
  shutdown.exited # "no" => (channel.state = "closed" /\ shutdown.stage = "db")

\* After the signal no message is rejected, each message stays settled at most
\* once, and a failure write of a pass that failed because of the shutdown
\* changes no job record.
InFlightNotFailedByShutdown ==
  [][Signalled =>
       /\ nacked' = nacked
       /\ \A m \in Tags :
            /\ SettledCount(m) <= 1
            /\ (pass[m].err \in ShutdownErrors /\ pass'[m] # pass[m]) => db' = db]_vars

\* C26: after a termination signal the consumer begins processing no further
\* message; it closes its channel and its connection before the process
\* exits; a message in flight at the signal is settled by its own pass or
\* left unacknowledged, and is never rejected, nor is its job marked failed,
\* because of the shutdown.
C26_GracefulShutdown ==
  /\ NoNewMessageAfterSignal
  /\ []ClosedBeforeExit
  /\ InFlightNotFailedByShutdown

\* The URL the object storage gateway returns for a key, as the claim
\* expects it: the public base, the bucket, the key.
DurableUrlOf(key) == [base |-> "public", bucket |-> "relayforge-assets", key |-> key]

\* url is the gateway's URL of an object that is in the bucket under job j.
IsDurable(url, j) ==
  /\ url = DurableUrlOf(url.key)
  /\ url.key.job = j
  /\ url.key \in storage

\* The URLs held by one entry of an asset map.
EntryUrls(entry) ==
  {entry.url} \cup
    (IF "formats" \in DOMAIN entry
     THEN {entry.formats[n].url : n \in DOMAIN entry.formats} ELSE {})

\* C27: every URL stored in a job record (in the asset map, in the format
\* map of its video entry, in media_url) is the gateway's URL of an object
\* stored under that job's prefix; and a task fulfils only when its upload
\* returns, the upload of a remote provider's asset following its download.
C27_StoredUrlsAreDurable ==
  /\ [](\A j \in JobIds :
          ~db[j].absent =>
            /\ \A c \in DOMAIN db[j].media_assets :
                 \A u \in EntryUrls(db[j].media_assets[c]) : IsDurable(u, j)
            /\ (db[j].media_url # NoUrl => IsDurable(db[j].media_url, j)))
  /\ [][\A m \in Tags : \A c \in Categories :
          LET t == task[m][c] IN
          /\ (task'[m][c].st = "fulfilled" /\ t.st # "fulfilled") =>
                (t.stage = "upload" /\ task'[m][c].url.key \in storage')
          /\ (task'[m][c].stage = "upload" /\ t.stage # "upload"
                /\ task'[m][c].prov \in RemoteProviders \ {"elevenlabs"}) =>
                t.stage = "download"]_vars

\* C27 witness: a committed record whose video came from Pictory and whose
\* thumbnail came from DALL-E, with a format variant attached.
C27_Witness ==
  \E j \in JobIds :
    /\ ~db[j].absent
    /\ db[j].status = "media_complete"
    /\ {"video", "thumbnail"} \subseteq DOMAIN db[j].media_assets
    /\ db[j].media_assets["video"].url.key.name = <<"video", "pictory">>
    /\ db[j].media_assets["thumbnail"].url.key.name = <<"thumbnail", "dalle">>
    /\ DOMAIN db[j].media_assets["video"].formats # {}

\* Message m is not among the messages ready on the broker.
NotQueued(m) == \A i \in DOMAIN queue : queue[i].tag # m

\* C28: when the commit of a pass fails after the generation, the pass has
\* raised (the error it keeps is the commit's, also when the failure write
\* fails in its turn), the failure write is attempted once, the message is
\* then rejected once without being requeued and is never acked, and the job
\* record carries neither media_complete nor the generated assets.
C28_CommitFailurePropagates ==
  \A m \in Tags :
    pass[m].err = "persistence" =>
      /\ pass[m].aggregated
      /\ pass[m].commits = 1 /\ ~pass[m].committed.done
      /\ acked[m] = 0
      /\ pass[m].pc \in {"failwrite", "done"}
      /\ (pass[m].pc = "failwrite" =>
            pass[m].failWrites = 0 /\ nacked[m] = 0 /\ m \in unacked)
      /\ (pass[m].pc = "done" =>
            /\ pass[m].failWrites = 1
            /\ nacked[m] = 1 /\ m \notin unacked /\ NotQueued(m))
      /\ getJob(db, pass[m].jobId).status \in {"processing", "failed"}
      /\ getJob(db, pass[m].jobId).media_assets = NoAssets

\* C28 witness: the commit failed with assets generated, the failure write
\* failed too, and the message was rejected with the commit's error kept.
C28_Witness ==
  \E m \in Tags :
    /\ pass[m].err = "persistence"
    /\ pass[m].pc = "done"
    /\ DOMAIN pass[m].assets # {}
    /\ nacked[m] = 1
    /\ getJob(db, pass[m].jobId).status = "processing"

\* C29 as stated: every finished pass that loaded its job has called
\* updateJobMedia exactly once.
C29_CommitOncePerLoadedJob ==
  \A m \in Tags :
    (pass[m].pc = "done" /\ ~pass[m].job.absent) => pass[m].commits = 1

\* The pass has got past the launch of its tasks without raising.
Joined(m) == pass[m].pc \in {"join", "formats", "commit"} \/ pass[m].aggregated

\* C29: the aggregated result of a pass is persisted exactly once: a pass
\* that loads its job and raises nothing before the join calls updateJobMedia
\* exactly once, after the aggregation and after the format expansion has
\* attempted every presentation; a pass that raised before the join never
\* calls it; and after a commit that succeeded the pass writes nothing more
\* to the job record.
C29_CommitOncePerJoinedPass ==
  /\ [](\A m \in Tags :
          /\ pass[m].commits <= 1
          /\ ((pass[m].pc = "done" /\ Joined(m)) => pass[m].commits = 1)
          /\ (~Joined(m) => pass[m].commits = 0)
          /\ ((pass[m].pc = "commit" \/ pass[m].commits > 0) =>
                /\ pass[m].aggregated
                /\ \A c \in LaunchedSet(m) : Settled(task[m][c])
                /\ ("video" \in DOMAIN pass[m].assets =>
                      pass[m].fmt = Len(FormatNames)))
          /\ (pass[m].pc = "commit" => pass[m].commits = 0)
          /\ (pass[m].committed.done =>
                pass[m].pc = "done" /\ pass[m].failWrites = 0))
  /\ [][(\E m \in Tags : pass[m].committed.done) => db' = db]_vars

\* C29 witness: a finished pass that committed once, after an expansion that
\* attempted all three presentations, and made no failure write.
C29_Witness ==
  \E m \in Tags :
    /\ pass[m].pc = "done"
    /\ pass[m].committed.done
    /\ pass[m].commits = 1
    /\ pass[m].fmt = Len(FormatNames)
    /\ pass[m].failWrites = 0

\* The ways a poll loop ends as a failure of the attempt.
PollFailures == {"remote_failed", "timeout", "nourl", "error"}

\* One step of category c's task of pass m, from t to u, follows the poll
\* loop's state machine.
PollLoopStep(t, u) ==
  LET sameAttempt == u.st = "running" /\ u.prov = t.prov /\ u.inCatch = t.inCatch
      \* the attempt threw and the chain's catch block took over: the local
      \* fallback is running with the thrown error caught, or it threw in its
      \* turn before its first await and the task is rejected
      caught == /\ u.st = "running" /\ u.prov = "fallback" /\ u.inCatch
                /\ u.error.p = t.prov
      fellThrough == u.st = "rejected" /\ u.error = Thrown("fallback", "error", 0)
  IN
  \* Submitted: the answered request is followed by one wait, not by a poll
  /\ (t.stage = "request" /\ IsPolled(t.prov) /\ sameAttempt) =>
        (u.stage = "sleep" /\ u.attempts = 0)
  \* a poll is issued only when a wait has elapsed
  /\ (u.stage = "poll" /\ u.st = "running") =>
        (t.stage = "sleep" /\ sameAttempt /\ u.attempts = t.attempts)
  \* Polling(n): each poll reports a terminal state or counts one attempt
  /\ t.stage = "poll" =>
        \/ sameAttempt /\ u.stage = "download"
        \/ sameAttempt /\ u.stage = "sleep" /\ u.attempts = t.attempts + 1
        \/ /\ caught
           /\ u.error.out \in PollFailures
           /\ (u.error.out = "timeout" =>
                 u.error.attempts = ClaimedMaxPolls(t.prov)
                   /\ t.attempts + 1 = ClaimedMaxPolls(t.prov))
        \/ fellThrough
  \* no wait and no poll once the loop has been left
  /\ (u.stage \in {"sleep", "poll"} /\ u.st = "running") =>
        (t.stage \in {"request", "sleep", "poll"} /\ sameAttempt)

\* C30: the poll loop of a remote provider follows Submitted -> Polling(n) ->
\* Completed | Failed | TimedOut: the first poll is made after one wait that
\* follows the submission, each poll reports a terminal state or adds one to
\* the attempt counter, the counter stays below the maximum while the loop
\* runs (the time-out is raised when it reaches it), a remote failure status
\* ends the attempt at once as a failure, and no poll follows a terminal state.
C30_PollLoopStateMachine ==
  /\ [](\A m \in Tags : \A c \in Categories :
          LET t == task[m][c] IN
          /\ t.attempts <= ClaimedMaxPolls(t.prov)
          /\ (t.stage \in {"sleep", "poll"} =>
                IsPolled(t.prov) /\ t.attempts < ClaimedMaxPolls(t.prov)))
  /\ [][\A m \in Tags : \A c \in Categories :
          (task'[m][c] # task[m][c] /\ task[m][c].st = "running")
            => PollLoopStep(task[m][c], task'[m][c])]_vars

\* C30 witness: RunwayML has answered nineteen polls with a pending status
\* and the twentieth poll is under way.
C30_Witness ==
  \E m \in Tags :
    /\ task[m]["video"].prov = "runway"
    /\ task[m]["video"].stage = "poll"
    /\ task[m]["video"].attempts = RunwayMaxAttempts - 1

\* C31: a provider whose credential is not configured is skipped: no attempt
\* is ever under way at a remote provider whose key is absent and no caught
\* or final error comes from one; the chain starts at its first configured
\* link, and passing over the unconfigured ones is no failure: the attempt
\* reached that way runs in the try block with no error recorded.
C31_UnconfiguredSkipped ==
  \A m \in Tags : \A c \in Categories :
    LET t == task[m][c] IN
    /\ (t.prov \in RemoteProviders => keys[t.prov])
    /\ (t.error.p \in RemoteProviders => keys[t.error.p])
    /\ ((t.st = "running" /\ ~t.inCatch) =>
          /\ t.error = NoError
          /\ \A i \in DOMAIN ChainRemotes(c) :
               (\A k \in 1..i : ~keys[ChainRemotes(c)[k]]) => t.prov # ChainRemotes(c)[i]
          /\ (ConfiguredRemotes(c) = {} => t.prov = "fallback"))

\* C31 witness: DALL-E has no key, Midjourney has one, and the thumbnail
\* task is at Midjourney, in the try block, with no error.
C31_Witness ==
  \E m \in Tags :
    /\ ~keys["dalle"] /\ keys["midjourney"]
    /\ task[m]["thumbnail"].st = "running"
    /\ task[m]["thumbnail"].prov = "midjourney"
    /\ ~task[m]["thumbnail"].inCatch
    /\ task[m]["thumbnail"].error = NoError

\* C32: a message is acked only once the commit of its job's result has
\* succeeded in the same pass: an acked message's pass has committed, without
\* error, and the record holds the pass's asset map; while a pass is under
\* way (up to and including the wait for the commit) its message is
\* unacknowledged; and the ack is made by the step in which the commit
\* returns successfully.
C32_AckAfterCommit ==
  /\ [](\A m \in Tags :
          /\ acked[m] <= 1
          /\ (acked[m] = 1 =>
                /\ pass[m].committed.done /\ pass[m].commits = 1
                /\ pass[m].err = "none" /\ nacked[m] = 0
                /\ ~getJob(db, pass[m].jobId).absent
                /\ getJob(db, pass[m].jobId).status = "media_complete"
                /\ getJob(db, pass[m].jobId).media_assets = pass[m].assets)
          /\ (InProgress(m) => (acked[m] = 0 /\ m \in unacked)))
  /\ [][\A m \in Tags :
          acked'[m] # acked[m] =>
            /\ pass[m].pc = "commit" /\ ~pass[m].committed.done
            /\ pass'[m].committed.done
            /\ db' = updateJobMedia(db, pass[m].jobId, pass[m].assets)]_vars

\* C32 witness: a message acked after a commit that wrote two or more assets.
C32_Witness ==
  \E m \in Tags :
    /\ acked[m] = 1
    /\ pass[m].committed.done
    /\ Cardinality(DOMAIN getJob(db, pass[m].jobId).media_assets) >= 2

\* C33: within one invocation of a chain each provider is attempted at most
\* once: the attempt that the chain's catch block has started is not an
\* attempt of the provider whose failure the catch block caught (so the
\* local fallback is not run again after it failed as the first link).
C33_EachProviderOnce ==
  \A m \in Tags : \A c \in Categories :
    (task[m][c].st = "running" /\ task[m][c].inCatch)
      => task[m][c].error.p # task[m][c].prov

\* C34: each failure the pass records after the join names the category
\* whose task failed: the recorded labels are the failed categories, in
\* launch order, whatever subset of the categories was launched.
C34_ErrorsNameFailedCategory ==
  \A m \in Tags :
    pass[m].aggregated =>
      pass[m].errors = SelectSeq(pass[m].launched, LAMBDA c : task[m][c].st = "rejected")

\* The media_url that goes with an asset map: the URL of its audio entry,
\* and no URL (SQL NULL) when it has none.
AudioUrlOf(assets) == IF "audio" \in DOMAIN assets THEN assets["audio"].url ELSE NoUrl

\* C35: after every successful commit the record's media_url is the URL of
\* the audio entry of the committed map, and NULL when the map has no audio
\* entry, whatever media_url an earlier pass left; and as no other write
\* touches either column, media_url goes with the stored map in every state.
C35_MediaUrlIsAudioUrl ==
  /\ [](\A j \in JobIds :
          ~db[j].absent => db[j].media_url = AudioUrlOf(db[j].media_assets))
  /\ [][\A m \in Tags :
          (pass'[m].committed.done /\ ~pass[m].committed.done) =>
            LET row == getJob(db', pass[m].jobId) IN
            /\ row.media_assets = pass'[m].committed.assets
            /\ row.media_url = AudioUrlOf(pass'[m].committed.assets)]_vars

\* C35 witness: a reprocessing pass loaded a record with a media_url,
\* produced no audio, committed, and the record's media_url is NULL.
C35_Witness ==
  \E m \in Tags :
    /\ pass[m].committed.done
    /\ pass[m].job.media_url # NoUrl
    /\ "audio" \notin DOMAIN pass[m].committed.assets
    /\ pass[m].committed.assets # NoAssets
    /\ getJob(db, pass[m].jobId).media_url = NoUrl

\* The failure write of message m returns in this step.
FailureWriteReturns(m) == pass[m].pc = "failwrite" /\ pass'[m].pc = "done"

\* C36: the write on the failure path of a pass changes at most the status
\* of the pass's job, and only to failed: it creates no record, it leaves
\* every other record alone, and the job's stored asset map and media_url
\* (and its title, script and analysis) are what they were, so a job marked
\* failed keeps the asset map an earlier pass committed.
C36_FailureWriteFrame ==
  [][\A m \in Tags :
       FailureWriteReturns(m) =>
         /\ DOMAIN db' = DOMAIN db
         /\ \A j \in DOMAIN db :
              \/ db'[j] = db[j]
              \/ /\ j = pass[m].jobId
                 /\ ~db[j].absent
                 /\ db'[j] = [db[j] EXCEPT !.status = "failed"]
                 /\ db'[j].media_assets = db[j].media_assets
                 /\ db'[j].media_url = db[j].media_url]_vars

\* C36 witness: a pass loaded a job holding the asset map an earlier pass
\* had committed, then failed; the job is marked failed and still holds that
\* map and its media_url.
C36_Witness ==
  \E m \in Tags :
    /\ pass[m].pc = "done"
    /\ pass[m].failWrites > 0
    /\ pass[m].err = "persistence"
    /\ ~pass[m].job.absent
    /\ pass[m].job.status = "media_complete"
    /\ pass[m].job.media_assets # NoAssets
    /\ pass[m].job.media_url # NoUrl
    /\ ~getJob(db, pass[m].jobId).absent
    /\ getJob(db, pass[m].jobId).status = "failed"
    /\ getJob(db, pass[m].jobId).media_assets = pass[m].job.media_assets
    /\ getJob(db, pass[m].jobId).media_url = pass[m].job.media_url

\* C37: when generateMultipleVoices has returned, whatever the list of voice
\* ids and whichever of the requests failed, the service's voice id is what
\* it was when the call was made, and the request of a generateAudio made at
\* the end of the call used that voice id.
C37_VoiceIdRestored ==
  audioService.call.pc = "returned" =>
    /\ audioService.elevenLabsVoiceId = audioService.call.atCall
    /\ audioService.call.used \in {"", audioService.call.atCall}
====
